---- MODULE Spec2Model ----
(***************************************************************************)
(* Model of the job supervision core of EchoDownloader (src/app.py): the   *)
(* job registry, the queue, the active set, the queue-mode flag, the       *)
(* shared-state lock, the request handlers (/download, /cancel, /mode),    *)
(* the runner thread of each job (run_job), the delayed cleanup thread of  *)
(* each cancel, the admission routine (start_next_from_queue) and the      *)
(* history file (load_history / save_history).                             *)
(*                                                                         *)
(* Granularity: one action per block of code that runs without waiting.    *)
(* A block under `with jobs_lock:` is one action, enabled when the lock is *)
(* free.  Code that touches no shared state is part of the locked block    *)
(* that follows it: Popen (line 144) with lines 151-153, the exit of the   *)
(* process and the end of its output (lines 156-170) with lines 172-188,   *)
(* a raise with the handler of lines 190-194.  The reads and writes of     *)
(* QUEUE_MODE take no lock: /mode and the read at line 196 are actions of  *)
(* their own, and /download, which reads the flag at lines 379 and 387,    *)
(* is two actions.  /download is also the only code that keeps the lock    *)
(* across a wait: it calls start_next_from_queue (line 389) inside its     *)
(* own `with jobs_lock:`.                                                  *)
(*                                                                         *)
(* Job ids are uuid4 strings in the code; the model numbers them 1, 2, ... *)
(* in the order in which /download takes the lock.  A job dict outlives    *)
(* its registry entry while its runner holds it: `job` keeps every dict,   *)
(* `jobs` the ids that are keys of the registry.                           *)
(* history.json is absent, unparsable, or a JSON list as save_history      *)
(* writes it, and reading and writing it succeed (the IOError handlers of  *)
(* lines 72 and 83 only log).                                              *)
(***************************************************************************)
EXTENDS Integers, Sequences, FiniteSets, TLC

\* ---------------------------------------------------------------- constants
\* Config.MAX_PARALLEL, src/app.py line 27
MAX_PARALLEL == 3
\* Config.MAX_HISTORY_ENTRIES, src/app.py line 28
MAX_HISTORY_ENTRIES == 50

\* ------------------------------------------------------------------- bounds
\* number of /download requests accepted in a behaviour of Spec
MaxJobs == 1
\* number of /download requests accepted in a behaviour of SpecSat
MaxJobsSat == 5
\* number of /download requests accepted in a behaviour of SpecCancel
MaxJobsCancel == 4
\* number of cleanup threads (line 443) alive at the same time
MaxCleanups == 1
\* number of cleanup threads alive at the same time in SpecCancelTwice
MaxCleanupsTwice == 2
\* number of save_history calls in a behaviour of SpecHistory
MaxRecords == 3
\* number of /download requests accepted in a behaviour of SpecSubmit
MaxJobsSubmit == 4

\* ------------------------------------------------------------------- inputs
\* The "url" of a request body is a string, modelled as a sequence of
\* characters: 0 is a whitespace character, a positive number any text
\* without whitespace.  A body without "url" has the default "" (line 331),
\* a body without "mode" the default "mp4" (line 332).
\* The k-th /download request that is accepted asks for the URL " k", as mp3
\* when k is odd and as mp4 when k is even: the URL and the mode of a request
\* decide no branch after validation, they only end up in the job dict and
\* in the history entry.
RequestUrl(k) == <<0, k>>
RequestMode(k) == IF k % 2 = 1 THEN "mp3" ELSE "mp4"
\* requests that lines 328-340 answer with status 400: no or an empty body
\* and a body without "url" (url ""), a blank url, an unknown mode
INVALID_REQUESTS ==
    { [url |-> << >>, mode |-> "mp4"],
      [url |-> <<0>>, mode |-> "mp3"],
      [url |-> <<0, 0>>, mode |-> "mp4"],
      [url |-> <<9>>, mode |-> "wav"],
      [url |-> << >>, mode |-> "wav"] }
\* the requests that can come when k - 1 requests have been accepted
Requests(k) == {[url |-> RequestUrl(k), mode |-> RequestMode(k)]} \cup INVALID_REQUESTS
\* a "percent" value of a progress line of the external process
PERCENTS == {42}
\* exit codes of the external process (0, and one nonzero code)
RETURNCODES == {0, 1}
\* the entries handed to save_history (lines 178-181): title and mode of a job
ENTRIES == [title : {<<1>>, <<2>>}, type : {"mp3", "mp4"}]

VARIABLES
    jobs,         \* keys of the dict `jobs` (line 57): ids with a registry record
    job,          \* the job dicts made at line 374, by id; jobs[id] is job[id]
    queue,        \* the list `queue` (line 58)
    active_jobs,  \* the set `active_jobs` (line 59)
    QUEUE_MODE,   \* the flag QUEUE_MODE (line 60)
    jobs_lock,    \* jobs_lock (line 61): "free", or "download" while /download holds it
    download_pc,  \* the /download handler inside its `with jobs_lock:` [pc, job_id]
    runner,       \* by id: where that job's run_job thread is ("L<line>")
    proc,         \* by id: the external process: "none", "alive", or exited with
                  \* return code 0 ("exit 0") or another code ("exit 1")
    cleanup,      \* by id: cleanup threads of cancel [L436: sleeping, L441: before
                  \* admission, ended: returned from line 441]
    HISTORY_FILE, \* history.json: absent, corrupt (no JSON), or a JSON list of entries
    started_by,   \* by id: the call site that started the run_job thread
    cancelled_at  \* by id: "never", or the status the job had when cancel first
                  \* marked it: "downloading", "queued" (and waiting in the
                  \* queue), or "other"

vars == <<jobs, job, queue, active_jobs, QUEUE_MODE, jobs_lock, download_pc,
          runner, proc, cleanup, HISTORY_FILE, started_by, cancelled_at>>

\* ------------------------------------------------------------------ helpers
Ids == 1..Len(job)

Min(a, b) == IF a < b THEN a ELSE b

\* the list without every occurrence of x (queue.remove at line 440; an id
\* occurs at most once in the queue)
Remove(s, x) == SelectSeq(s, LAMBDA y : y # x)

\* job_id in queue (line 439)
InQueue(j) == \E i \in 1..Len(queue) : queue[i] = j

\* the i-th entry of a history file left by earlier runs
OldEntry(i) == [title |-> <<100 + i>>, type |-> "mp4"]

\* ------------------------------------------------------------ history store
\* load_history, lines 64-74: [] when the file is absent, empty or not JSON
load_history ==
    IF HISTORY_FILE.content = "json list" THEN HISTORY_FILE.data ELSE << >>

\* the list written whole (json.dump(data) for the slice of line 82)
TruncateNever(data) == data

\* data[:Config.MAX_HISTORY_ENTRIES], line 82
Truncate(data) == SubSeq(data, 1, Min(Len(data), MAX_HISTORY_ENTRIES))

\* a history file that holds the JSON list `data`
JsonFile(data) == [content |-> "json list", data |-> data]

\* save_history with the new entry put last (data.append for data.insert(0))
save_history_append(entry) == JsonFile(Truncate(load_history \o <<entry>>))

\* save_history, lines 76-84: the file it writes
save_history(entry) == JsonFile(Truncate(<<entry>> \o load_history))

\* the entries of the file that calls of save_history put there (the others
\* were in the file at the start)
Recorded == {i \in 1..Len(load_history) : load_history[i] \in ENTRIES}

\* one call save_history(entry), lines 76-84, on its own
Record(entry) ==
    /\ Cardinality(Recorded) < MaxRecords
    /\ HISTORY_FILE' = save_history(entry)
    /\ UNCHANGED <<jobs, job, queue, active_jobs, QUEUE_MODE, jobs_lock,
                   download_pc, runner, proc, cleanup, started_by, cancelled_at>>

\* --------------------------------------------------------------- /download
\* the dict of lines 374-385
NewJob(url, mode, queue_mode) ==
    [ title   |-> url,
      mode    |-> mode,
      status  |-> IF queue_mode THEN "queued" ELSE "starting",
      percent |-> 0,
      process |-> FALSE ]

\* str.strip() of line 331: the string without its leading and trailing
\* whitespace
RECURSIVE lstrip(_)
lstrip(s) == IF s # << >> /\ Head(s) = 0 THEN lstrip(Tail(s)) ELSE s

RECURSIVE rstrip(_)
rstrip(s) ==
    IF s # << >> /\ s[Len(s)] = 0 THEN rstrip(SubSeq(s, 1, Len(s) - 1)) ELSE s

strip(s) == rstrip(lstrip(s))

\* the tests of lines 334 and 338 made on the url as the body has it
ValidRequestUnstripped(url, mode) == url # << >> /\ mode \in {"mp3", "mp4"}

\* lines 331-340: the request is accepted
ValidRequest(url, mode) == strip(url) # << >> /\ mode \in {"mp3", "mp4"}

\* /download, lines 320-340: the request is answered with status 400
DownloadReject(url, mode) ==
    /\ ~ValidRequest(url, mode)
    /\ UNCHANGED vars

\* /download, lines 342-385: take the lock, create the record
DownloadCreate(url, mode, max) ==
    /\ jobs_lock = "free"
    /\ Len(job) < max
    /\ ValidRequest(url, mode)
    /\ jobs_lock' = "download"
    /\ download_pc' = [pc |-> "L387", job_id |-> Len(job) + 1]
    /\ job' = Append(job, NewJob(strip(url), mode, QUEUE_MODE))
    /\ jobs' = jobs \cup {Len(job) + 1}
    /\ runner' = Append(runner, "none")
    /\ proc' = Append(proc, "none")
    /\ cleanup' = Append(cleanup, [L436 |-> 0, L441 |-> 0, ended |-> 0])
    /\ started_by' = Append(started_by, "none")
    /\ cancelled_at' = Append(cancelled_at, "never")
    /\ UNCHANGED <<queue, active_jobs, QUEUE_MODE, HISTORY_FILE>>

\* line 391: a slot is free
BelowCeiling == Cardinality(active_jobs) < MAX_PARALLEL

\* /download, lines 387-401: start the job or append it to the queue.  In
\* queue mode the handler calls start_next_from_queue (line 389) while it
\* holds jobs_lock, a threading.Lock, and waits at line 117 for that lock.
DownloadDispatch ==
    /\ download_pc.pc = "L387"
    /\ LET id == download_pc.job_id IN
       IF QUEUE_MODE
       THEN /\ queue' = Append(queue, id)
            /\ download_pc' = [download_pc EXCEPT !.pc = "L117"]
            /\ UNCHANGED <<jobs_lock, job, runner, started_by>>
       ELSE IF BelowCeiling
       THEN /\ runner' = [runner EXCEPT ![id] = "L137"]
            /\ started_by' = [started_by EXCEPT ![id] = "download"]
            /\ jobs_lock' = "free"
            /\ download_pc' = [pc |-> "idle", job_id |-> 0]
            /\ UNCHANGED <<queue, job>>
       ELSE /\ job' = [job EXCEPT ![id].status = "queued"]
            /\ queue' = Append(queue, id)
            /\ jobs_lock' = "free"
            /\ download_pc' = [pc |-> "idle", job_id |-> 0]
            /\ UNCHANGED <<runner, started_by>>
    /\ UNCHANGED <<jobs, active_jobs, QUEUE_MODE, proc, cleanup, HISTORY_FILE,
                   cancelled_at>>

\* ------------------------------------------------------------------- /mode
\* mode(), lines 308-315, with a body {"queue": q}; takes no lock
Mode(q) ==
    /\ QUEUE_MODE' = q
    /\ UNCHANGED <<jobs, job, queue, active_jobs, jobs_lock, download_pc, runner,
                   proc, cleanup, HISTORY_FILE, started_by, cancelled_at>>

\* -------------------------------------------------- start_next_from_queue
\* lines 118-123: the routine goes on to pop
AdmitPops == QUEUE_MODE /\ active_jobs = {} /\ queue # << >>

\* the queue after a call that reads the head and leaves it in the list
\* (queue[0] for queue.pop(0))
QueueAfterPeek == queue

\* line 125: the queue after the call
QueueAfterAdmit == IF AdmitPops THEN Tail(queue) ELSE queue

\* lines 125-132: the job the call hands to a new run_job thread, 0 if none
Admitted == IF AdmitPops /\ Head(queue) \in jobs THEN Head(queue) ELSE 0

\* ----------------------------------------------------------------- run_job
\* lines 137-141
RunnerStart(j) ==
    /\ runner[j] = "L137"
    /\ jobs_lock = "free"
    /\ IF j \notin jobs
       THEN /\ runner' = [runner EXCEPT ![j] = "end"]
            /\ UNCHANGED job
       ELSE /\ job' = [job EXCEPT ![j].status = "downloading"]
            /\ runner' = [runner EXCEPT ![j] = "L144"]
    /\ UNCHANGED <<jobs, queue, active_jobs, QUEUE_MODE, jobs_lock, download_pc,
                   proc, cleanup, HISTORY_FILE, started_by, cancelled_at>>

\* lines 144-153: the process is spawned, bound to the job and registered.
\* Popen touches no shared state, so it is one step with the locked block
\* of lines 151-153 that follows it.
Spawn(j) ==
    /\ runner[j] = "L144"
    /\ jobs_lock = "free"
    /\ proc' = [proc EXCEPT ![j] = "alive"]
    /\ job' = [job EXCEPT ![j].process = TRUE]
    /\ active_jobs' = active_jobs \cup {j}
    /\ runner' = [runner EXCEPT ![j] = "L156"]
    /\ UNCHANGED <<jobs, queue, QUEUE_MODE, jobs_lock, download_pc, cleanup,
                   HISTORY_FILE, started_by, cancelled_at>>

\* the handler without line 194: the status is left as it is
JobAfterFaultLogged(d) == d

\* lines 190-194: the job dict after the handler of a fault
JobAfterFault(d) == [d EXCEPT !.status = "error"]

\* lines 144-149 raise (the command cannot be run), and the handler of
\* lines 190-194 runs
SpawnFault(j) ==
    /\ runner[j] = "L144"
    /\ jobs_lock = "free"
    /\ active_jobs' = active_jobs \ {j}
    /\ job' = [job EXCEPT ![j] = JobAfterFault(@)]
    /\ runner' = [runner EXCEPT ![j] = "L196"]
    /\ UNCHANGED <<jobs, queue, QUEUE_MODE, jobs_lock, download_pc, proc, cleanup,
                   HISTORY_FILE, started_by, cancelled_at>>

\* lines 156-166: one progress line of the process
Progress(j, percent) ==
    /\ runner[j] = "L156"
    /\ jobs_lock = "free"
    /\ job' = [job EXCEPT ![j].percent = percent]
    /\ UNCHANGED <<jobs, queue, active_jobs, QUEUE_MODE, jobs_lock, download_pc,
                   runner, proc, cleanup, HISTORY_FILE, started_by, cancelled_at>>

\* lines 156-170 raise (undecodable output, a progress record that is no
\* object), and the handler of lines 190-194 runs; the process is not
\* waited for
OutputFault(j) ==
    /\ runner[j] = "L156"
    /\ jobs_lock = "free"
    /\ active_jobs' = active_jobs \ {j}
    /\ job' = [job EXCEPT ![j] = JobAfterFault(@)]
    /\ runner' = [runner EXCEPT ![j] = "L196"]
    /\ UNCHANGED <<jobs, queue, QUEUE_MODE, jobs_lock, download_pc, proc, cleanup,
                   HISTORY_FILE, started_by, cancelled_at>>

\* lines 175-185: the job dict after the exit
JobAfterExit(d, returncode) ==
    IF d.status = "cancelled" THEN d
    ELSE IF returncode = 0 THEN [d EXCEPT !.status = "done", !.percent = 100]
    ELSE [d EXCEPT !.status = "error"]

\* lines 175-183, writing the history entry whatever the return code
HistoryAfterAnyExit(d, returncode) ==
    IF d.status # "cancelled"
    THEN save_history([title |-> d.title, type |-> d.mode])
    ELSE HISTORY_FILE

\* lines 175-183: the history file after the exit
HistoryAfterExit(d, returncode) ==
    IF d.status # "cancelled" /\ returncode = 0
    THEN save_history([title |-> d.title, type |-> d.mode])
    ELSE HISTORY_FILE

\* lines 156-188: the process exits with `returncode`, the runner reads the
\* end of its output and takes the lock
RunnerExit(j, returncode) ==
    /\ runner[j] = "L156"
    /\ jobs_lock = "free"
    /\ proc' = [proc EXCEPT ![j] = IF returncode = 0 THEN "exit 0" ELSE "exit 1"]
    /\ job' = [job EXCEPT ![j] = JobAfterExit(@, returncode)]
    /\ HISTORY_FILE' = HistoryAfterExit(job[j], returncode)
    /\ active_jobs' = active_jobs \ {j}
    /\ runner' = [runner EXCEPT ![j] = "L196"]
    /\ UNCHANGED <<jobs, queue, QUEUE_MODE, jobs_lock, download_pc, cleanup,
                   started_by, cancelled_at>>

\* line 196: the unlocked read of QUEUE_MODE
RunnerCheckMode(j) ==
    /\ runner[j] = "L196"
    /\ runner' = [runner EXCEPT ![j] = IF QUEUE_MODE THEN "L117" ELSE "end"]
    /\ UNCHANGED <<jobs, job, queue, active_jobs, QUEUE_MODE, jobs_lock,
                   download_pc, proc, cleanup, HISTORY_FILE, started_by,
                   cancelled_at>>

\* line 197: start_next_from_queue called by the runner
RunnerAdmit(j) ==
    /\ runner[j] = "L117"
    /\ jobs_lock = "free"
    /\ queue' = QueueAfterAdmit
    /\ runner' = [i \in DOMAIN runner |->
                    IF i = j THEN "end" ELSE IF i = Admitted THEN "L137" ELSE runner[i]]
    /\ started_by' = [i \in DOMAIN started_by |->
                    IF i = Admitted THEN "start_next_from_queue" ELSE started_by[i]]
    /\ UNCHANGED <<jobs, job, active_jobs, QUEUE_MODE, jobs_lock, download_pc,
                   proc, cleanup, HISTORY_FILE, cancelled_at>>

\* ----------------------------------------------------------------- /cancel
CleanupThreads ==
    LET RECURSIVE Sum(_)
        Sum(n) == IF n = 0 THEN 0 ELSE cleanup[n].L436 + cleanup[n].L441 + Sum(n - 1)
    IN Sum(Len(cleanup))

\* cancel(job_id), lines 421-444, up to the start of the cleanup thread;
\* at most `max` cleanup threads are alive
Cancel(j, max) ==
    /\ jobs_lock = "free"
    /\ IF j \notin jobs
       THEN UNCHANGED <<job, cleanup, cancelled_at>>
       ELSE /\ CleanupThreads < max
            /\ job' = [job EXCEPT ![j].status = "cancelled"]
            /\ cleanup' = [cleanup EXCEPT ![j].L436 = @ + 1]
            /\ cancelled_at' = [cancelled_at EXCEPT ![j] =
                                  IF @ # "never" THEN @
                                  ELSE IF job[j].status = "downloading"
                                  THEN "downloading"
                                  ELSE IF job[j].status = "queued" /\ InQueue(j)
                                  THEN "queued" ELSE "other"]
    /\ UNCHANGED <<jobs, queue, active_jobs, QUEUE_MODE, jobs_lock, download_pc,
                   runner, proc, HISTORY_FILE, started_by>>

\* cleanup, lines 435-440: after the sleep
CleanupRemove(j) ==
    /\ cleanup[j].L436 > 0
    /\ jobs_lock = "free"
    /\ jobs' = jobs \ {j}
    /\ active_jobs' = active_jobs \ {j}
    /\ queue' = IF InQueue(j) THEN Remove(queue, j) ELSE queue
    /\ cleanup' = [cleanup EXCEPT ![j].L436 = @ - 1, ![j].L441 = @ + 1]
    /\ UNCHANGED <<job, QUEUE_MODE, jobs_lock, download_pc, runner, proc,
                   HISTORY_FILE, started_by, cancelled_at>>

\* cleanup, line 441: start_next_from_queue called by the cleanup thread
CleanupAdmit(j) ==
    /\ cleanup[j].L441 > 0
    /\ jobs_lock = "free"
    /\ queue' = QueueAfterAdmit
    /\ runner' = [i \in DOMAIN runner |-> IF i = Admitted THEN "L137" ELSE runner[i]]
    /\ started_by' = [i \in DOMAIN started_by |->
                    IF i = Admitted THEN "start_next_from_queue" ELSE started_by[i]]
    /\ cleanup' = [cleanup EXCEPT ![j].L441 = @ - 1, ![j].ended = @ + 1]
    /\ UNCHANGED <<jobs, job, active_jobs, QUEUE_MODE, jobs_lock, download_pc,
                   proc, HISTORY_FILE, cancelled_at>>

\* ----------------------------------------------------------- specification
\* history.json as earlier runs of the program can have left it
Histories ==
    { [content |-> "absent", data |-> << >>],
      [content |-> "corrupt", data |-> << >>],
      JsonFile([i \in 1..MAX_HISTORY_ENTRIES |-> OldEntry(i)]) }

\* the module-level state of lines 57-61
InitWith(histories) ==
    /\ jobs = {}
    /\ job = << >>
    /\ queue = << >>
    /\ active_jobs = {}
    /\ QUEUE_MODE = FALSE
    /\ jobs_lock = "free"
    /\ download_pc = [pc |-> "idle", job_id |-> 0]
    /\ runner = << >>
    /\ proc = << >>
    /\ cleanup = << >>
    /\ HISTORY_FILE \in histories
    /\ started_by = << >>
    /\ cancelled_at = << >>

\* Spec: every request that changes the state, every thread step and every
\* fault of the model, few jobs.
Init == InitWith(Histories)

Next ==
    \/ DownloadCreate(RequestUrl(Len(job) + 1), RequestMode(Len(job) + 1), MaxJobs)
    \/ DownloadDispatch
    \/ \E q \in BOOLEAN : Mode(q)
    \/ \E j \in 1..MaxJobs : Cancel(j, MaxCleanups)
    \/ \E j \in Ids : RunnerStart(j)
    \/ \E j \in Ids : Spawn(j)
    \/ \E j \in Ids : SpawnFault(j)
    \/ \E j \in Ids, percent \in PERCENTS : Progress(j, percent)
    \/ \E j \in Ids : OutputFault(j)
    \/ \E j \in Ids, rc \in RETURNCODES : RunnerExit(j, rc)
    \/ \E j \in Ids : RunnerCheckMode(j)
    \/ \E j \in Ids : RunnerAdmit(j)
    \/ \E j \in Ids : CleanupRemove(j)
    \/ \E j \in Ids : CleanupAdmit(j)

Spec == Init /\ [][Next]_vars

\* SpecSat: the same program in an environment that never cancels and
\* whose processes never fault and exit with code 0.  Every behaviour of
\* SpecSat is a behaviour of the program; it has enough jobs for the ceiling
\* to be reached and two jobs to wait in the queue.
InitSat == InitWith({[content |-> "absent", data |-> << >>]})

NextSat ==
    \/ DownloadCreate(RequestUrl(Len(job) + 1), RequestMode(Len(job) + 1), MaxJobsSat)
    \/ DownloadDispatch
    \/ \E q \in BOOLEAN : Mode(q)
    \/ \E j \in Ids : RunnerStart(j)
    \/ \E j \in Ids : Spawn(j)
    \/ \E j \in Ids : RunnerExit(j, 0)
    \/ \E j \in Ids : RunnerCheckMode(j)
    \/ \E j \in Ids : RunnerAdmit(j)

SpecSat == InitSat /\ [][NextSat]_vars

\* SpecCancel: the environment of SpecSat, which also sends /cancel, for
\* one job in a behaviour.
CancelOne(j, max) ==
    /\ \A i \in Ids : i # j => cancelled_at[i] = "never"
    /\ Cancel(j, max)

NextCancel ==
    \/ DownloadCreate(RequestUrl(Len(job) + 1), RequestMode(Len(job) + 1), MaxJobsCancel)
    \/ DownloadDispatch
    \/ \E q \in BOOLEAN : Mode(q)
    \/ \E j \in Ids : CancelOne(j, MaxCleanups)
    \/ \E j \in Ids : RunnerStart(j)
    \/ \E j \in Ids : Spawn(j)
    \/ \E j \in Ids : RunnerExit(j, 0)
    \/ \E j \in Ids : RunnerCheckMode(j)
    \/ \E j \in Ids : RunnerAdmit(j)
    \/ \E j \in Ids : CleanupRemove(j)
    \/ \E j \in Ids : CleanupAdmit(j)

SpecCancel == InitSat /\ [][NextCancel]_vars

\* SpecCancelTwice: the environment of SpecCancel, in which the one job
\* that is cancelled can be cancelled again before its cleanup has run.
NextCancelTwice ==
    \/ DownloadCreate(RequestUrl(Len(job) + 1), RequestMode(Len(job) + 1), MaxJobsCancel)
    \/ DownloadDispatch
    \/ \E q \in BOOLEAN : Mode(q)
    \/ \E j \in Ids : CancelOne(j, MaxCleanupsTwice)
    \/ \E j \in Ids : RunnerStart(j)
    \/ \E j \in Ids : Spawn(j)
    \/ \E j \in Ids : RunnerExit(j, 0)
    \/ \E j \in Ids : RunnerCheckMode(j)
    \/ \E j \in Ids : RunnerAdmit(j)
    \/ \E j \in Ids : CleanupRemove(j)
    \/ \E j \in Ids : CleanupAdmit(j)

SpecCancelTwice == InitSat /\ [][NextCancelTwice]_vars

\* SpecSubmit: the environment of SpecSat, which also sends the requests
\* that /download rejects.
NextSubmit ==
    \/ \E request \in Requests(Len(job) + 1) :
          DownloadCreate(request.url, request.mode, MaxJobsSubmit)
    \/ \E request \in Requests(Len(job) + 1) :
          DownloadReject(request.url, request.mode)
    \/ DownloadDispatch
    \/ \E q \in BOOLEAN : Mode(q)
    \/ \E j \in Ids : RunnerStart(j)
    \/ \E j \in Ids : Spawn(j)
    \/ \E j \in Ids : RunnerExit(j, 0)
    \/ \E j \in Ids : RunnerCheckMode(j)
    \/ \E j \in Ids : RunnerAdmit(j)

SpecSubmit == InitSat /\ [][NextSubmit]_vars

\* SpecHistory: the history store on its own.  save_history is called any
\* number of times, with any entry, on a file that is absent, unparsable,
\* one entry short of the cap, or full.
InitHistory ==
    InitWith(Histories
             \cup {JsonFile([i \in 1..(MAX_HISTORY_ENTRIES - 1) |-> OldEntry(i)])})

NextHistory == \E entry \in ENTRIES : Record(entry)

SpecHistory == InitHistory /\ [][NextHistory]_vars

\* ------------------------------------------------------------------ claims
\* no request handler holds the lock and no thread is between its start and
\* its end: nothing happens until the next request
Idle ==
    /\ jobs_lock = "free"
    /\ \A j \in Ids : runner[j] \in {"none", "end"}
    /\ CleanupThreads = 0

Downloading == {j \in jobs : job[j].status = "downloading"}

\* the jobs that start_next_from_queue handed to a runner
QueueAdmitted == {j \in Ids : started_by[j] = "start_next_from_queue"}

\* C1: while queue mode is on, at most one job has status `downloading`.
\* Stated of the jobs that queue admission itself started (a job started
\* before queue mode was switched on is not counted), which the claim
\* implies.
C1_OneDownloadingInQueueMode ==
    QUEUE_MODE => Cardinality(Downloading \cap QueueAdmitted) <= 1

\* C2: while queue mode is off, the number of jobs with status `downloading`
\* is at most MAX_PARALLEL.
C2_DownloadingBelowCeiling ==
    ~QUEUE_MODE => Cardinality(Downloading) <= MAX_PARALLEL

\* C3: every valid submit completes: the /download handler never waits for
\* the shared-state lock while it holds that lock itself (a wait that cannot
\* end, so that the lock is never released and no job id is returned).
C3_SubmitCompletes == ~(jobs_lock = "download" /\ download_pc.pc = "L117")

\* C4: with queue mode off, a job that waits in the queue is admitted once
\* fewer than MAX_PARALLEL jobs run.  As a final result: when every process
\* has exited and every thread has ended, with queue mode off and a slot
\* free, no job is left waiting in the queue (from such a state nothing
\* runs until the next request, so a job left there is never admitted).
C4_QueuedJobAdmitted ==
    (~QUEUE_MODE /\ Idle /\ BelowCeiling) => queue = << >>

\* C5: a job that is cancelled while its status is `queued` (and it waits in
\* the queue) never afterwards has status `downloading`, and no process is
\* ever spawned for it.
C5_CancelledQueuedNeverRuns ==
    \A j \in Ids :
        cancelled_at[j] = "queued"
        => (job[j].status # "downloading" /\ proc[j] = "none")

\* the admission rule of the specification: a slot is free for the head of
\* the queue
SlotFree == IF QUEUE_MODE THEN active_jobs = {} ELSE BelowCeiling

\* C6: after the cancel of a `downloading` job its cleanup removes the record
\* and the id from the active set, and if the queue is not empty the next
\* queued job is then admitted: the admission call that ends the cleanup
\* thread (line 441), made with a job waiting and a slot free, pops the head
\* of the queue and starts its runner.
C6_CleanupAdmitsNext ==
    [][\A j \in Ids :
         ( /\ cancelled_at[j] = "downloading"
           /\ cleanup'[j].L441 < cleanup[j].L441
           /\ queue # << >>
           /\ SlotFree )
         => ( /\ j \notin jobs /\ j \notin active_jobs
              /\ queue' = Tail(queue)
              /\ runner'[Head(queue)] = "L137" )]_vars

\* C7: after every process exit the job leaves the active set and admission
\* is invoked, so that with queue mode on every waiting job is admitted.
\* As a final result: when every process has exited and every thread has
\* ended, with queue mode on, no job is left waiting in the queue.
C7_QueueDrains ==
    (QUEUE_MODE /\ Idle) => queue = << >>

\* C8: admission is FIFO: of two jobs that waited in the queue, neither
\* cancelled, the one enqueued earlier enters `downloading` before the one
\* enqueued later.  Ids are given and enqueued under one hold of the lock, so
\* the lower id was enqueued earlier: the later job is never `downloading`
\* while the earlier one, popped, still has status `queued`.
C8_FifoDownloading ==
    \A i, k \in QueueAdmitted :
        (i < k /\ cancelled_at[i] = "never" /\ cancelled_at[k] = "never")
        => ~(job[i].status = "queued" /\ job[k].status = "downloading")

C10_ExitNonzero ==
    [][\A j \in Ids :
         /\ (proc[j] = "alive" /\ proc'[j] = "exit 1" /\ job[j].status # "cancelled")
            => (job'[j].status = "error" /\ HISTORY_FILE' = HISTORY_FILE)
         /\ job[j].status = "error"
            => /\ job'[j].status \in {"error", "cancelled"}
               /\ runner[j] \in {"L196", "L117", "end"}
               /\ runner'[j] \in {"L196", "L117", "end"}
               /\ proc'[j] = proc[j]]_vars

\* C10 witness: a job ended with status `error` after a nonzero exit code,
\* and its runner has finished without anything being started again.
C10_Witness ==
    \E j \in Ids :
        job[j].status = "error" /\ proc[j] = "exit 1" /\ runner[j] = "end"

C12_InvalidSubmitRejected ==
    /\ \A request \in INVALID_REQUESTS :
          /\ ENABLED DownloadReject(request.url, request.mode)
          /\ ~ENABLED DownloadCreate(request.url, request.mode, MaxJobsSubmit)
    /\ \A j \in Ids :
          /\ job[j].title # << >>
          /\ Head(job[j].title) # 0
          /\ job[j].mode \in {"mp3", "mp4"}

\* C12 witness: the invalid requests are rejected in a state in which the
\* lock is free and a valid request would be accepted, with three records in
\* the registry and their ids in the active set.
C12_Witness ==
    /\ jobs_lock = "free"
    /\ Len(job) < MaxJobsSubmit
    /\ Cardinality(jobs) = MAX_PARALLEL /\ active_jobs = jobs
    /\ ENABLED DownloadCreate(RequestUrl(Len(job) + 1), RequestMode(Len(job) + 1),
                              MaxJobsSubmit)
    /\ \A request \in INVALID_REQUESTS :
          /\ ENABLED DownloadReject(request.url, request.mode)
          /\ ~ENABLED DownloadCreate(request.url, request.mode, MaxJobsSubmit)

\* C13: cancel is idempotent: cancelling a job twice leads to the same final
\* registry, queue and active set as cancelling it once.  The second cancel
\* adds a second cleanup thread.  When a cleanup thread of the job has ended
\* and nothing else runs (no handler holds the lock, no runner and no other
\* cleanup thread is alive), the state is the one in which the program rests
\* after a single cancel: the step of the second cleanup thread taken there
\* leaves the registry, the queue and the active set as they are and starts
\* no runner.
C13_CancelTwiceAsOnce ==
    [][\A j \in Ids :
         ( /\ cleanup[j].ended >= 1
           /\ cleanup'[j].ended > cleanup[j].ended
           /\ jobs_lock = "free"
           /\ \A i \in Ids : runner[i] \in {"none", "end"}
           /\ CleanupThreads = 1 )
         => ( /\ jobs' = jobs /\ queue' = queue /\ active_jobs' = active_jobs
              /\ runner' = runner )]_vars

\* the run_job thread of j has started and has not yet set a final status:
\* each of its next steps takes jobs_lock (lines 138, 151, 172, 192)
Unfinished(j) == runner[j] \in {"L137", "L144", "L156"}

\* C14: /mode changes only the flag, and a job that was already admitted
\* keeps running to its final status whatever is toggled later.  For a job
\* that /download admitted with queue mode off: while its runner has its
\* final status still to set, the lock that the runner needs is never held
\* by a handler that waits for that lock itself (which would keep the job
\* from ever getting a final status).
C14_AdmittedJobsFinish ==
    \A j \in Ids :
        (started_by[j] = "download" /\ Unfinished(j))
        => ~(jobs_lock = "download" /\ download_pc.pc = "L117")

\* C15: while the record of a job exists its status only changes along
\* queued/starting -> downloading -> {done, error, cancelled}, with cancel
\* from any status that is not final; a final status (done, error,
\* cancelled) never changes, so that a cancelled job stays cancelled when
\* its runner starts, when its process exits and when a fault is caught.
C15_StatusLifecycle ==
    [][\A j \in Ids :
         (j \in jobs /\ j \in jobs' /\ job'[j].status # job[j].status)
         => \/ /\ job[j].status \in {"queued", "starting"}
               /\ job'[j].status \in {"queued", "starting", "downloading", "cancelled"}
            \/ /\ job[j].status = "downloading"
               /\ job'[j].status \in {"done", "error", "cancelled"}]_vars

\* C16: in every reachable state each id occurs in the queue at most once,
\* and every id in the queue is the key of a registry record whose status is
\* `queued`.  Stated of the states in which jobs_lock is free: the lock
\* guards the registry and the queue, and what its holder has half done is
\* seen by no other thread.
C16_QueueHoldsQueuedJobs ==
    jobs_lock = "free"
    => /\ \A i, k \in 1..Len(queue) : queue[i] = queue[k] => i = k
       /\ \A i \in 1..Len(queue) :
             queue[i] \in jobs /\ job[queue[i]].status = "queued"

\* C17: in every reachable state a job with status `downloading` has a
\* process handle in its record, and a job with a final status (done, error,
\* or cancelled with its process exited or never spawned) has none.
C17_HandleWhileDownloading ==
    \A j \in jobs :
        /\ job[j].status = "downloading" => job[j].process
        /\ ( \/ job[j].status \in {"done", "error"}
             \/ job[j].status = "cancelled" /\ proc[j] # "alive" )
           => ~job[j].process

\* C18: a fault raised while the process is spawned or its output is read
\* is caught: the job gets status `error`, its id is not in the active set,
\* the history file is left as it is, and the runner goes on to the
\* admission step that ends run_job (line 196).  A step in which the runner
\* leaves lines 144-170 and the state of the process stays what it was (not
\* spawned, or alive) is such a fault.
C18_FaultCaught ==
    [][\A j \in Ids :
         ( /\ runner[j] \in {"L144", "L156"}
           /\ runner'[j] # runner[j]
           /\ proc'[j] = proc[j] )
         => ( /\ job'[j].status = "error"
              /\ j \notin active_jobs'
              /\ HISTORY_FILE' = HISTORY_FILE
              /\ runner'[j] = "L196" )]_vars

\* C18 witness: after a fault in the output loop the job has status
\* `error`, its process is still alive, its id is not in the active set and
\* its runner has reached the admission call.
C18_Witness ==
    \E j \in Ids :
        /\ job[j].status = "error" /\ proc[j] = "alive"
        /\ j \notin active_jobs
        /\ runner[j] = "L117"

\* the jobs whose external process has been spawned and has not exited
Alive == {j \in Ids : proc[j] = "alive"}

\* C19: in every reachable state at most MAX_PARALLEL external processes
\* are alive.
C19_AliveBelowCeiling == Cardinality(Alive) <= MAX_PARALLEL

\* a job that waits in the queue has not been handed to run_job, and is in
\* the queue once
WaitingNotStarted ==
    /\ \A i, k \in 1..Len(queue) : queue[i] = queue[k] => i = k
    /\ \A i \in 1..Len(queue) :
          runner[queue[i]] = "none" /\ started_by[queue[i]] = "none"

\* C20: every job is handed to run_job at most once, and at most one
\* process is ever spawned for it.  A job that waits in the queue has no
\* run_job thread, before and after every step; a step that starts the
\* thread of a job finds it without thread and without process and leaves
\* it out of the queue; a thread never starts again; and a process is spawned
\* only by line 144 of that thread, for a job that has had none.
C20_HandedOverOnce ==
    [][/\ WaitingNotStarted
       /\ WaitingNotStarted'
       /\ \A j \in Ids :
            /\ (started_by'[j] # started_by[j] \/ (runner'[j] = "L137" /\ runner[j] # "L137"))
               => /\ runner[j] = "none" /\ started_by[j] = "none" /\ proc[j] = "none"
                  /\ runner'[j] = "L137"
                  /\ \A i \in 1..Len(queue') : queue'[i] # j
            /\ runner[j] # "none" => runner'[j] # "none"
            /\ (proc'[j] = "alive" /\ proc[j] # "alive")
               => proc[j] = "none" /\ runner[j] = "L144" /\ runner'[j] = "L156"]_vars

\* C20 witness: a job that waited in the queue was popped by an admission
\* call made after a toggle to queue mode, has run and its process has
\* exited, in a behaviour in which a job was cancelled.
C20_Witness ==
    \E j \in Ids :
        /\ started_by[j] = "start_next_from_queue"
        /\ proc[j] = "exit 0"
        /\ runner[j] = "end"
        /\ \E i \in Ids : cancelled_at[i] # "never"

====
